---------------------------- MODULE Spec2Model ----------------------------
(***************************************************************************)
(* GEX builders (gex_builder.py build_gex, gex_backfill_utility.py         *)
(* build_day) and the flip-zone computation of the Pine converters.        *)
(*                                                                         *)
(* Numbers are exact integers; a Python value that may be None is a        *)
(* sequence of length 0 (None) or 1 (the value); a quotient n/d is the     *)
(* pair <<n, d>>.  Floating-point rounding is not modelled.                *)
(***************************************************************************)
EXTENDS Integers, Sequences, FiniteSets, TLC

VARIABLES
    builder,      \* which script runs: "build_gex" or "build_day"
    pc,           \* "loop": in the per-contract quote loop; "done": returned;
                  \* "hist" / "standalone": that converter has processed the CSV
    i,            \* number of option symbols of the chain processed so far
    complete,     \* history: how many quotes fetched so far had all of strike,
                  \* gamma, open interest and underlying price present and non-null
    rows,         \* the list `rows` of the builder
    grouped,      \* the pivoted per-strike DataFrame (empty before/without it)
    saved,        \* whether the CSV file was written
    ret,          \* return value of the builder (meaningful when pc # "loop")
    df,           \* the DataFrame a converter read from the CSV (rows in file order)
    df_sorted,    \* df_sorted of the last compute_flip_zone, with its cum_gex column
    conv_flip,    \* flip zone computed by the converter
    spot_price,   \* the underlying's price fetched before the chain
    \* gex_to_tradingview.py: the generated Pine script on the last bar
    total_gex,    \* Pine: float total_gex
    max_gex,      \* Pine: float max_gex
    regime,       \* Pine: string regime of the dashboard (None before it is drawn)
    \* the quote loop over a given filtered chain
    filtered_chain,   \* the list the loop iterates over (<<>>: symbols as they come)
    fetched,      \* history: the symbols get_quote was called for, in order
    \* smart_filter_chain
    chain,        \* its argument
    selected_options, \* the list it builds and returns
    current_count,    \* its counter
    \* the main loops of gex_builder.py and gex_backfill_utility.py
    generated_files,  \* gex_builder.py: list generated_files
    flip_summary, \* gex_builder.py: dict flip_summary, as a set of <<ticker, flip>>
    attempted,    \* history: the tickers build_gex / build_day was called for
    today,        \* gex_backfill_utility.py: weekday of today (0 = Monday)
    day,          \* gex_backfill_utility.py: the loop variable i of the day loop
    disk,         \* the CSV files on disk, as a set of <<ticker, day>>
    \* gex_to_pinescript_converter.py (historical): main part
    files,        \* the list files, after files.sort()
    history_map,  \* dict history_map: symbol -> list of records
    last_record,  \* symbol -> the record used for the last-bar histogram
    \* the pressure-zone column of the saved table
    pressure_zone \* one flag per row of the table (<<>>: the table has no such column)

coreVars == <<builder, pc, i, complete, rows, grouped, saved, ret, df, df_sorted,
              conv_flip, spot_price>>
masterVars == <<total_gex, max_gex, regime>>
batchVars == <<filtered_chain, fetched>>
filterVars == <<chain, selected_options, current_count>>
mainVars == <<generated_files, flip_summary, attempted, today, day, disk>>
histVars == <<files, history_map, last_record>>
pressureVars == <<pressure_zone>>

\* everything but the builder's own state
auxVars == <<masterVars, batchVars, filterVars, mainVars, histVars, pressureVars>>

vars == <<coreVars, masterVars, batchVars, filterVars, mainVars, histVars,
          pressureVars>>

---------------------------------------------------------------------------
(* Bounds and input sets *)

MaxChain == 3
MaxDayChain == 2

Strikes == {100, 105, 110}
Gammas == {-1, 0, 1}
OpenInterests == {3}
Underlyings == {105}
Roots == {"SPY", "CAT"}
Expiries == {"250117"}
TypeLetters == {"C", "P"}

None == <<>>
Some(v) == <<v>>
Opt(S) == {None} \cup {Some(v) : v \in S}

Abs(x) == IF x < 0 THEN -x ELSE x
Sign(x) == IF x > 0 THEN 1 ELSE IF x < 0 THEN -1 ELSE 0

\* An OCC option symbol ROOT + YYMMDD + C/P + strike*1000 (8 digits).
OptionSymbols ==
    [root : Roots, expiry : Expiries, letter : TypeLetters,
     digits : {s * 1000 : s \in Strikes}]

\* The JSON of a quote, after safe_extract: every field None when the key is
\* missing or null.  The API reports the strike of the symbol asked for.
QuotesOf(opt) ==
    [strike : {None, Some(opt.digits \div 1000)}, gamma : Opt(Gammas),
     oi : Opt(OpenInterests), underlying : Opt(Underlyings)]

SpotPrices == {105}

\* STRIKE_RANGE_PCT = 0.15, in percent
STRIKE_RANGE_PCT == 15

\* build_day: low <= strike <= high with low, high = spot_price * (1 -/+ 0.15)
InStrikeRange(spot, strike) ==
    /\ spot * (100 - STRIKE_RANGE_PCT) <= strike * 100
    /\ strike * 100 <= spot * (100 + STRIKE_RANGE_PCT)

RootLetters(root) == IF root = "SPY" THEN {"S", "P", "Y"} ELSE {"C", "A", "T"}

\* The characters of the symbol string: root letters, digits, type letter.
SymbolChars(opt) == RootLetters(opt.root) \cup {opt.letter}

\* The symbol ends with a strike digit, so neither endswith test fires.
infer_option_type(opt) == IF "C" \in SymbolChars(opt) THEN "C" ELSE "P"

\* parse_option_symbol of the backfill: (expiry, int(group 4) / 1000.0)
parse_strike(opt) == opt.digits \div 1000

---------------------------------------------------------------------------
(* Sorting and sums *)

RECURSIVE SortAsc(_)
SortAsc(S) ==
    IF S = {} THEN <<>>
    ELSE LET m == CHOOSE x \in S : \A y \in S : x <= y
         IN <<m>> \o SortAsc(S \ {m})

RECURSIVE SumGEX_overwrite(_, _, _)
\* mutant: a later contract of the group overwrites the earlier ones
SumGEX_overwrite(rs, s, t) ==
    IF rs = <<>> THEN 0
    ELSE LET n == Len(rs)
         IN IF rs[n].strike = s /\ rs[n].type = t THEN rs[n].GEX
            ELSE SumGEX_overwrite(SubSeq(rs, 1, n - 1), s, t)

RECURSIVE SumGEX(_, _, _)
\* sum of GEX over the rows of one (strike, type) group, in row order
SumGEX(rs, s, t) ==
    IF rs = <<>> THEN 0
    ELSE (IF Head(rs).strike = s /\ Head(rs).type = t THEN Head(rs).GEX ELSE 0)
         + SumGEX(Tail(rs), s, t)

Range(f) == {f[k] : k \in DOMAIN f}

RECURSIVE SeqSum(_)
\* the sum of a column
SeqSum(xs) == IF xs = <<>> THEN 0 ELSE Head(xs) + SeqSum(Tail(xs))

Min(S) == CHOOSE x \in S : \A y \in S : x <= y

RECURSIVE SortByStrike(_)
\* sort_index() / sort_values("strike"): rows in ascending strike order
\* (insertion of the last row into the sorted rest; ties keep file order)
SortByStrike(d) ==
    IF d = <<>> THEN <<>>
    ELSE LET n == Len(d)
             rest == SortByStrike(SubSeq(d, 1, n - 1))
             lo == SelectSeq(rest, LAMBDA r : r.strike <= d[n].strike)
             hi == SelectSeq(rest, LAMBDA r : r.strike > d[n].strike)
         IN lo \o <<d[n]>> \o hi

RECURSIVE CumSum(_)
\* Series.cumsum(): running sum in row order
CumSum(xs) ==
    IF xs = <<>> THEN <<>>
    ELSE LET n == Len(xs)
             before == CumSum(SubSeq(xs, 1, n - 1))
         IN Append(before, (IF n = 1 THEN 0 ELSE before[n - 1]) + xs[n])

\* the frame with its cum_gex column, rows kept in the order given
WithCumGex(d) ==
    LET c == CumSum([k \in 1..Len(d) |-> d[k].net_gex])
    IN [k \in 1..Len(d) |-> [strike |-> d[k].strike, net_gex |-> d[k].net_gex,
                             cum_gex |-> c[k]]]

\* np.where(np.diff(np.sign(cum_gex)))[0], as 1-based positions
Flips(ds) == {k \in 1..(Len(ds) - 1) : Sign(ds[k + 1].cum_gex) - Sign(ds[k].cum_gex) # 0}

\* idx = flips[0]; (low + high) / 2
FirstFlipMidpoint(ds) ==
    IF Flips(ds) = {} THEN None
    ELSE LET idx == Min(Flips(ds))
         IN <<ds[idx].strike + ds[idx + 1].strike, 2>>

---------------------------------------------------------------------------
(* gex_builder.py: compute_flip_zone *)

builder_df_sorted(tbl) == WithCumGex(SortByStrike(tbl))

Max(S) == CHOOSE x \in S : \A y \in S : x >= y

\* mutant: takes the last sign change instead of the first
compute_flip_zone_last(tbl) ==
    LET ds == builder_df_sorted(tbl)
    IN IF tbl = <<>> \/ Flips(ds) = {} THEN None
       ELSE <<ds[Max(Flips(ds))].strike + ds[Max(Flips(ds)) + 1].strike, 2>>

\* mutant: looks for the sign change in net_gex, not in its running sum
compute_flip_zone_netsign(tbl) ==
    LET ds == builder_df_sorted(tbl)
        fl == {k \in 1..(Len(ds) - 1) : Sign(ds[k + 1].net_gex) # Sign(ds[k].net_gex)}
    IN IF tbl = <<>> \/ fl = {} THEN None
       ELSE <<ds[Min(fl)].strike + ds[Min(fl) + 1].strike, 2>>

compute_flip_zone(tbl) ==
    IF tbl = <<>> THEN None ELSE FirstFlipMidpoint(builder_df_sorted(tbl))

(* gex_to_pinescript_converter.py (historical): compute_flip_zone *)

hist_df_sorted(d) == WithCumGex(SortByStrike(d))

hist_compute_flip_zone(d) == FirstFlipMidpoint(hist_df_sorted(d))

(* .github/workflows/gex_to_pinescript_converter.py (standalone) *)

\* mutant: cumulates in file order, without sorting by strike
standalone_df_unsorted(d) == WithCumGex(d)

standalone_df_sorted(d) == WithCumGex(SortByStrike(d))

standalone_compute_flip_zone(d) == FirstFlipMidpoint(standalone_df_sorted(d))

---------------------------------------------------------------------------
(* Aggregation: groupby / unstack / derived columns *)

\* gex = float(gamma) * float(oi) * 100 * float(underlying)
ContractGex(gamma, oi, underlying) == gamma * oi * 100 * underlying

\* the (strike, type) groups of groupby(["strike", "type"])
GroupKeys(rs) == {<<r.strike, r.type>> : r \in Range(rs)}

\* mutant: keeps only the strikes that have both a call and a put group
StrikeIndexBothSides(rs) ==
    SortAsc({s \in {k[1] : k \in GroupKeys(rs)} :
                <<s, "C">> \in GroupKeys(rs) /\ <<s, "P">> \in GroupKeys(rs)})

RECURSIVE StrikeIndexUnsorted(_)
\* mutant: groupby(sort=False), strikes in order of first appearance
StrikeIndexUnsorted(rs) ==
    IF rs = <<>> THEN <<>>
    ELSE LET n == Len(rs)
             before == StrikeIndexUnsorted(SubSeq(rs, 1, n - 1))
         IN IF rs[n].strike \in Range(before) THEN before
            ELSE Append(before, rs[n].strike)

\* the index of the unstacked frame: the distinct strikes, ascending
StrikeIndex(rs) == SortAsc({k[1] : k \in GroupKeys(rs)})

\* one cell of unstack(fill_value=0) after the rename and the two
\* "column not in grouped.columns" defaults
Cell(rs, s, t) == IF <<s, t>> \in GroupKeys(rs) THEN SumGEX(rs, s, t) ELSE 0

\* mutant: adds the put side instead of subtracting it
NetGexSum(call_gex, put_gex) == call_gex + put_gex

NetGex(call_gex, put_gex) == call_gex - put_gex

\* mutant: call / (call + put), without the absolute values
GSI_signed(call_gex, put_gex) ==
    IF call_gex + put_gex > 0 THEN <<call_gex, call_gex + put_gex>> ELSE <<0, 1>>

\* np.where(total_gex > 0, |call_gex| / total_gex, 0)
GSI(call_gex, put_gex) ==
    LET total == Abs(call_gex) + Abs(put_gex)   \* the local total_gex of line 262
    IN IF total > 0 THEN <<Abs(call_gex), total>> ELSE <<0, 1>>

\* build_gex, lines 252-263
GexTable(rs) ==
    LET idx == StrikeIndex(rs)
    IN [k \in 1..Len(idx) |->
          LET c == Cell(rs, idx[k], "C")
              p == Cell(rs, idx[k], "P")
          IN [strike |-> idx[k], call_gex |-> c, put_gex |-> p,
              net_gex |-> NetGex(c, p), abs_net_gex |-> Abs(NetGex(c, p)),
              GSI |-> GSI(c, p)]]

\* build_day, lines 177-184
DayTable(rs) ==
    LET idx == StrikeIndex(rs)
    IN [k \in 1..Len(idx) |->
          LET c == Cell(rs, idx[k], "C")
              p == Cell(rs, idx[k], "P")
          IN [strike |-> idx[k], call_gex |-> c, put_gex |-> p,
              net_gex |-> NetGex(c, p)]]

---------------------------------------------------------------------------
(* The builders *)

NoQuote == [strike |-> None, gamma |-> None, oi |-> None, underlying |-> None]

\* a valid observation: strike, gamma, openInterest, underlyingPrice all present
AllPresent(qq) ==
    qq.strike # None /\ qq.gamma # None /\ qq.oi # None /\ qq.underlying # None

\* the parts of the state a process does not use keep these values
MasterIdle == total_gex = 0 /\ max_gex = 0 /\ regime = None
BatchIdle == filtered_chain = <<>> /\ fetched = <<>>
\* the variables of the builders other than the position in a loop
coreVarsButPcI ==
    <<builder, complete, rows, grouped, saved, ret, df, df_sorted, conv_flip,
      spot_price>>

FilterIdle == chain = <<>> /\ selected_options = <<>> /\ current_count = 0
MainIdle ==
    /\ generated_files = <<>> /\ flip_summary = {} /\ attempted = <<>>
    /\ today = 0 /\ day = 0 /\ disk = {}
HistIdle == files = <<>> /\ history_map = <<>> /\ last_record = <<>>
PressureIdle == pressure_zone = <<>>

Init ==
    /\ builder \in {"build_gex", "build_day"}
    /\ spot_price \in SpotPrices
    /\ pc = "loop"
    /\ i = 0
    /\ complete = 0
    /\ rows = <<>>
    /\ grouped = <<>>
    /\ saved = FALSE
    /\ ret = None
    /\ df = <<>>
    /\ df_sorted = <<>>
    /\ conv_flip = None
    /\ MasterIdle /\ BatchIdle /\ FilterIdle /\ MainIdle /\ HistIdle /\ PressureIdle

\* build_gex, one iteration of the loop over filtered_chain (lines 217-245)
GexRow(opt, qq) ==
    [strike |-> qq.strike[1], gamma |-> qq.gamma[1], oi |-> qq.oi[1],
     underlying |-> qq.underlying[1],
     GEX |-> ContractGex(qq.gamma[1], qq.oi[1], qq.underlying[1]),
     type |-> infer_option_type(opt)]

\* if any(v is None for v in [strike, gamma, oi, underlying]): continue
GexIncomplete(qq) ==
    \E v \in {qq.strike, qq.gamma, qq.oi, qq.underlying} : v = None

\* the body of the loop for the symbol opt.  ok: get_quote returned a quote
\* qq (it returns None when the request fails or raises, lines 100-106)
GexStep(opt, ok, qq) ==
    /\ builder = "build_gex" /\ pc = "loop"
    /\ complete' = IF ok /\ AllPresent(qq) THEN complete + 1 ELSE complete
    /\ rows' = IF ~ok \/ GexIncomplete(qq) THEN rows
               ELSE Append(rows, GexRow(opt, qq))
    /\ i' = i + 1
    /\ UNCHANGED <<builder, pc, grouped, saved, ret, df, df_sorted, conv_flip, spot_price>>

\* the next symbol of the chain, whichever it is
GexQuote ==
    /\ i < MaxChain
    /\ \E opt \in OptionSymbols, ok \in BOOLEAN :
         \E qq \in (IF ok THEN QuotesOf(opt) ELSE {NoQuote}) : GexStep(opt, ok, qq)
    /\ UNCHANGED auxVars

\* build_day, one iteration of the loop over final_list (lines 149-171)
DayRow(opt, qq, spot) ==
    LET underlying == IF qq.underlying = None THEN spot ELSE qq.underlying[1]
    IN [strike |-> parse_strike(opt),
        GEX |-> ContractGex(qq.gamma[1], qq.oi[1], underlying),
        type |-> infer_option_type(opt)]

\* if gamma is None or oi is None: continue
DayIncomplete(qq) == qq.gamma = None \/ qq.oi = None

\* the symbols that pass the strike filter (lines 136-145)
FinalListSymbols(spot) ==
    {opt \in OptionSymbols : InStrikeRange(spot, parse_strike(opt))}

\* the body of the loop for the symbol opt.  ok: get_historical_quote
\* returned a quote qq (None when the request fails or raises, lines 80-85)
DayStep(opt, ok, qq) ==
    /\ builder = "build_day" /\ pc = "loop"
    /\ complete' = IF ok /\ AllPresent(qq) THEN complete + 1 ELSE complete
    /\ rows' = IF ~ok \/ DayIncomplete(qq) THEN rows
               ELSE Append(rows, DayRow(opt, qq, spot_price))
    /\ i' = i + 1
    /\ UNCHANGED <<builder, pc, grouped, saved, ret, df, df_sorted, conv_flip, spot_price>>

\* the next symbol of final_list, whichever it is
DayQuote ==
    /\ i < MaxDayChain
    /\ \E opt \in FinalListSymbols(spot_price), ok \in BOOLEAN :
         \E qq \in (IF ok THEN QuotesOf(opt) ELSE {NoQuote}) : DayStep(opt, ok, qq)
    /\ UNCHANGED auxVars

\* build_gex: "if not chain: return None, None" (lines 207-210)
GexNoChain ==
    /\ builder = "build_gex" /\ pc = "loop" /\ i = 0
    /\ pc' = "done"
    /\ ret' = <<None, None>>
    /\ UNCHANGED <<builder, i, complete, rows, grouped, saved, df, df_sorted,
                   conv_flip, spot_price>>
    /\ UNCHANGED auxVars

\* mutant: no "if df.empty" check, an empty table is saved
GexFinishNoEmptyCheck ==
    /\ builder = "build_gex" /\ pc = "loop" /\ i >= 1
    /\ pc' = "done"
    /\ grouped' = GexTable(rows)
    /\ df_sorted' = builder_df_sorted(grouped')
    /\ saved' = TRUE
    /\ ret' = <<Some("precision"), compute_flip_zone(grouped')>>
    /\ UNCHANGED <<builder, i, complete, rows, df, conv_flip, spot_price>>
    /\ UNCHANGED auxVars

\* build_gex after the loop (lines 247-296)
GexFinish ==
    /\ builder = "build_gex" /\ pc = "loop" /\ i >= 1
    /\ pc' = "done"
    /\ IF rows = <<>>
       THEN /\ ret' = <<None, None>>
            /\ UNCHANGED <<grouped, saved, df_sorted>>
       ELSE /\ grouped' = GexTable(rows)
            /\ df_sorted' = builder_df_sorted(grouped')
            /\ saved' = TRUE
            /\ ret' = <<Some("precision"), compute_flip_zone(grouped')>>
    /\ UNCHANGED <<builder, i, complete, rows, df, conv_flip, spot_price>>
    /\ UNCHANGED auxVars

\* build_day after the loop (lines 173-187); the function returns None
DayFinish ==
    /\ builder = "build_day" /\ pc = "loop"
    /\ pc' = "done"
    /\ ret' = None
    /\ IF rows = <<>>
       THEN UNCHANGED <<grouped, saved>>
       ELSE /\ grouped' = DayTable(rows)
            /\ saved' = TRUE
    /\ UNCHANGED <<builder, i, complete, rows, df, df_sorted, conv_flip, spot_price>>
    /\ UNCHANGED auxVars

---------------------------------------------------------------------------
(* The converters run as separate scripts on the saved CSV (the builder's    *)
(* memory is gone); the rows of the file may come in any order.            *)

Perms(n) == Permutations(1..n)

Permute(s, f) == [k \in 1..Len(s) |-> s[f[k]]]

\* process_file_data (historical converter), lines 38-44
HistProcessFile ==
    /\ pc = "done" /\ saved
    /\ \E f \in Perms(Len(grouped)) :
         /\ df' = Permute(grouped, f)
         /\ df_sorted' = hist_df_sorted(df')
         /\ conv_flip' = hist_compute_flip_zone(df')
    /\ pc' = "hist"
    /\ i' = 0 /\ complete' = 0 /\ rows' = <<>> /\ ret' = None
    /\ UNCHANGED <<builder, grouped, saved, spot_price>>
    /\ UNCHANGED auxVars

\* generate_pine_file (standalone converter), lines 55-63
StandaloneGenerate ==
    /\ pc = "done" /\ saved
    /\ \E f \in Perms(Len(grouped)) :
         /\ df' = Permute(grouped, f)
         /\ df_sorted' = standalone_df_sorted(df')
         /\ conv_flip' = standalone_compute_flip_zone(df')
    /\ pc' = "standalone"
    /\ i' = 0 /\ complete' = 0 /\ rows' = <<>> /\ ret' = None
    /\ UNCHANGED <<builder, grouped, saved, spot_price>>
    /\ UNCHANGED auxVars

Next ==
    \/ GexQuote
    \/ DayQuote
    \/ GexNoChain
    \/ GexFinish
    \/ DayFinish
    \/ HistProcessFile
    \/ StandaloneGenerate

Spec == Init /\ [][Next]_vars

---------------------------------------------------------------------------
(* gex_to_tradingview.py: the master Pine script reads the CSV of a symbol  *)
(* by column position, merges the rows of a strike, and the generated Pine  *)
(* code sums the values on the last bar and labels the regime.  The CSV is  *)
(* modelled as the file build_gex writes (the only dated CSV with a fifth   *)
(* column that the builders write).                                         *)

MaxCsvRows == 2

\* the rows build_gex can collect from complete quotes
CsvRows ==
    {GexRow(opt, qq) : opt \in OptionSymbols,
                       qq \in {q \in UNION {QuotesOf(o) : o \in OptionSymbols} :
                                  ~GexIncomplete(q)}}

\* header of grouped.reset_index().to_csv(): strike, the unstacked type
\* columns in alphabetical order, a missing side appended, then the
\* derived columns
CsvColumns(rs) ==
    IF \E k \in 1..Len(rs) : rs[k].type = "C"
    THEN <<"strike", "call_gex", "put_gex", "net_gex", "abs_net_gex", "GSI">>
    ELSE <<"strike", "put_gex", "call_gex", "net_gex", "abs_net_gex", "GSI">>

\* df_raw: strike = df.iloc[:, 0], gex = df.iloc[:, 4]
df_raw(csv, cols) ==
    [k \in 1..Len(csv) |-> [strike |-> csv[k][cols[1]], gex |-> csv[k][cols[5]]]]

\* df_clean = df_raw.groupby("strike")["gex"].sum(), sorted by strike
df_clean(d) ==
    LET idx == SortAsc({d[k].strike : k \in 1..Len(d)})
    IN [k \in 1..Len(idx) |->
          [strike |-> idx[k],
           gex |-> SeqSum([j \in 1..Len(d) |->
                             IF d[j].strike = idx[k] THEN d[j].gex ELSE 0])]]

fetch_data_for_symbol(csv, cols) == df_clean(df_raw(csv, cols))

InitMaster ==
    /\ builder = "build_gex"
    /\ spot_price \in SpotPrices
    /\ rows \in UNION {[1..n -> CsvRows] : n \in 1..MaxCsvRows}
    /\ complete = Len(rows)
    /\ grouped = GexTable(rows)
    /\ df_sorted = builder_df_sorted(grouped)
    /\ saved = TRUE
    /\ ret = <<Some("precision"), compute_flip_zone(grouped)>>
    /\ pc = "fetch"
    /\ i = 0
    /\ df = <<>>
    /\ conv_flip = None
    /\ MasterIdle /\ BatchIdle /\ FilterIdle /\ MainIdle /\ HistIdle /\ PressureIdle

\* fetch_data_for_symbol (lines 21-55); a failed request or parse gives
\* (None, None) and the Pine script has no data block for the symbol
MasterFetch ==
    /\ pc = "fetch"
    /\ \E ok \in BOOLEAN :
         IF ok THEN /\ df' = fetch_data_for_symbol(grouped, CsvColumns(rows))
                    /\ pc' = "pine"
         ELSE /\ df' = <<>>
              /\ pc' = "nodata"
    /\ UNCHANGED <<builder, i, complete, rows, grouped, saved, ret, df_sorted,
                   conv_flip, spot_price>>
    /\ UNCHANGED auxVars

\* Pine, "Calculate Max/Total first": one iteration (lines 144-148)
PineAccumulate ==
    /\ pc = "pine" /\ i < Len(df)
    /\ LET val == df[i + 1].gex
       IN /\ total_gex' = total_gex + val
          /\ max_gex' = IF Abs(val) > max_gex THEN Abs(val) ELSE max_gex
    /\ i' = i + 1
    /\ UNCHANGED <<builder, pc, complete, rows, grouped, saved, ret, df, df_sorted,
                   conv_flip, spot_price, regime>>
    /\ UNCHANGED <<batchVars, filterVars, mainVars, histVars, pressureVars>>

\* Pine, "Dashboard Summary" (lines 189-196), show_dashboard left at true
PineDashboard ==
    /\ pc = "pine" /\ i = Len(df)
    /\ regime' = Some(IF total_gex > 0 THEN "Short Vol (Pos GEX)"
                       ELSE "Long Vol (Neg GEX)")
    /\ pc' = "dash"
    /\ UNCHANGED <<builder, i, complete, rows, grouped, saved, ret, df, df_sorted,
                   conv_flip, spot_price, total_gex, max_gex>>
    /\ UNCHANGED <<batchVars, filterVars, mainVars, histVars, pressureVars>>

NextMaster ==
    \/ MasterFetch
    \/ PineAccumulate
    \/ PineDashboard

SpecMaster == InitMaster /\ [][NextMaster]_vars

---------------------------------------------------------------------------
(* The quote loop of build_gex / build_day over a given filtered chain,     *)
(* with the history of the get_quote calls.                                 *)

MaxBatch == 2

\* the option symbols of the chains of this specification
BatchSymbols == {o \in OptionSymbols : o.root = "SPY" /\ o.digits <= 105000}

\* history entry of one get_quote call: the symbol and, when the quote came
\* back with strike, gamma, open interest and underlying price all present,
\* the observation it carries
Fetched(opt, ok, qq) ==
    [opt |-> opt,
     obs |-> IF ok /\ AllPresent(qq)
             THEN Some([strike |-> qq.strike[1],
                        GEX |-> qq.gamma[1] * qq.oi[1] * 100 * qq.underlying[1],
                        type |-> infer_option_type(opt)])
             ELSE None]

InitBatch ==
    /\ builder \in {"build_gex", "build_day"}
    /\ spot_price \in SpotPrices
    /\ filtered_chain \in UNION {[1..n -> BatchSymbols \cap FinalListSymbols(spot_price)] :
                                    n \in 1..MaxBatch}
    /\ fetched = <<>>
    /\ pc = "loop"
    /\ i = 0
    /\ complete = 0
    /\ rows = <<>>
    /\ grouped = <<>>
    /\ saved = FALSE
    /\ ret = None
    /\ df = <<>>
    /\ df_sorted = <<>>
    /\ conv_flip = None
    /\ MasterIdle /\ FilterIdle /\ MainIdle /\ HistIdle /\ PressureIdle

\* build_gex: q = get_quote(opt) and the rest of the loop body, for the next
\* symbol of filtered_chain
BatchGexQuote ==
    /\ i < Len(filtered_chain)
    /\ LET opt == filtered_chain[i + 1]
       IN \E ok \in BOOLEAN :
            \E qq \in (IF ok THEN QuotesOf(opt) ELSE {NoQuote}) :
               /\ GexStep(opt, ok, qq)
               /\ fetched' = Append(fetched, Fetched(opt, ok, qq))
    /\ UNCHANGED <<filtered_chain, masterVars, filterVars, mainVars, histVars, pressureVars>>

\* build_day: the same for final_list
BatchDayQuote ==
    /\ i < Len(filtered_chain)
    /\ LET opt == filtered_chain[i + 1]
       IN \E ok \in BOOLEAN :
            \E qq \in (IF ok THEN QuotesOf(opt) ELSE {NoQuote}) :
               /\ DayStep(opt, ok, qq)
               /\ fetched' = Append(fetched, Fetched(opt, ok, qq))
    /\ UNCHANGED <<filtered_chain, masterVars, filterVars, mainVars, histVars, pressureVars>>

\* the for loop is exhausted: the code after it runs
BatchGexFinish == i = Len(filtered_chain) /\ GexFinish

BatchDayFinish == i = Len(filtered_chain) /\ DayFinish

NextBatch ==
    \/ BatchGexQuote
    \/ BatchDayQuote
    \/ BatchGexFinish
    \/ BatchDayFinish

SpecBatch == InitBatch /\ [][NextBatch]_vars

---------------------------------------------------------------------------
(* The main loops: gex_builder.py calls build_gex for every ticker,         *)
(* gex_backfill_utility.py calls build_day for every ticker of every past   *)
(* working day.  A call is one step; what it returns, writes or raises is   *)
(* drawn from what build_gex / build_day can do.                            *)

NumTickers == 3
DAYS_TO_BACKFILL == 2      \* 30 in the source

DEFAULT_TICKERS == <<"SPY", "QQQ", "IWM", "NVDA", "AMD">>

\* the list both scripts loop over (the backfill's list is the first three)
TICKERS == SubSeq(DEFAULT_TICKERS, 1, NumTickers)

FlipZones == {<<205, 2>>}

\* what a call of build_gex does: it raises, or returns (None, None), or
\* saves the CSV and returns (fname, flip_zone)
BuildGexOutcomes ==
    [raised : {TRUE}, ret : {<<None, None>>}]
    \cup [raised : {FALSE},
          ret : {<<None, None>>} \cup {<<Some("precision"), f>> : f \in Opt(FlipZones)}]

\* what a call of build_day does besides returning None
BuildDayOutcomes == {"raise", "skip", "no data", "saved"}

\* past_date.weekday() for past_date = today - timedelta(days=d)
Weekday(d) == (today + 7 * DAYS_TO_BACKFILL - d) % 7

InitMain ==
    /\ builder \in {"build_gex", "build_day"}
    /\ pc = "main"
    /\ i = 0
    /\ generated_files = <<>> /\ flip_summary = {} /\ attempted = <<>>
    /\ today \in (IF builder = "build_day" THEN 0..6 ELSE {0})
    /\ day = (IF builder = "build_day" THEN 1 ELSE 0)
    /\ disk \in (IF builder = "build_day" THEN {{}, {<<TICKERS[1], 1>>}} ELSE {{}})
    /\ spot_price \in SpotPrices
    /\ complete = 0 /\ rows = <<>> /\ grouped = <<>> /\ saved = FALSE /\ ret = None
    /\ df = <<>> /\ df_sorted = <<>> /\ conv_flip = None
    /\ MasterIdle /\ BatchIdle /\ FilterIdle /\ HistIdle /\ PressureIdle

\* mutant: no try/except around the call, an exception ends the run
MainGexTickerUncaught ==
    /\ builder = "build_gex" /\ pc = "main" /\ i < Len(TICKERS)
    /\ LET ticker == TICKERS[i + 1]
       IN \E out \in BuildGexOutcomes :
            /\ attempted' = Append(attempted, <<ticker, 0>>)
            /\ IF out.raised
               THEN pc' = "end" /\ UNCHANGED <<generated_files, flip_summary, disk>>
               ELSE /\ pc' = pc
                    /\ generated_files' =
                          IF out.ret[1] # None
                          THEN Append(generated_files, <<ticker, out.ret[1][1]>>)
                          ELSE generated_files
                    /\ flip_summary' =
                          IF out.ret[2] # None
                          THEN {e \in flip_summary : e[1] # ticker}
                               \cup {<<ticker, out.ret[2][1]>>}
                          ELSE flip_summary
                    /\ disk' = IF out.ret[1] # None THEN disk \cup {<<ticker, 0>>}
                               ELSE disk
    /\ i' = i + 1
    /\ UNCHANGED <<builder, complete, rows, grouped, saved, ret, df, df_sorted,
                   conv_flip, spot_price, today, day>>
    /\ UNCHANGED <<masterVars, batchVars, filterVars, histVars, pressureVars>>

\* gex_builder.py, one iteration of "for ticker in TICKERS" (lines 304-310)
MainGexTicker ==
    /\ builder = "build_gex" /\ pc = "main" /\ i < Len(TICKERS)
    /\ LET ticker == TICKERS[i + 1]
       IN \E out \in BuildGexOutcomes :
            /\ attempted' = Append(attempted, <<ticker, 0>>)
            /\ IF out.raised
               THEN UNCHANGED <<generated_files, flip_summary, disk>>
               ELSE /\ generated_files' =
                          IF out.ret[1] # None
                          THEN Append(generated_files, <<ticker, out.ret[1][1]>>)
                          ELSE generated_files
                    /\ flip_summary' =
                          IF out.ret[2] # None
                          THEN {e \in flip_summary : e[1] # ticker}
                               \cup {<<ticker, out.ret[2][1]>>}
                          ELSE flip_summary
                    /\ disk' = IF out.ret[1] # None THEN disk \cup {<<ticker, 0>>}
                               ELSE disk
    /\ i' = i + 1
    /\ UNCHANGED <<builder, pc, complete, rows, grouped, saved, ret, df, df_sorted,
                   conv_flip, spot_price, today, day>>
    /\ UNCHANGED <<masterVars, batchVars, filterVars, histVars, pressureVars>>

\* gex_builder.py after the loop (lines 312-319)
MainGexEnd ==
    /\ builder = "build_gex" /\ pc = "main" /\ i = Len(TICKERS)
    /\ pc' = "end"
    /\ UNCHANGED <<builder, i, complete, rows, grouped, saved, ret, df, df_sorted,
                   conv_flip, spot_price>>
    /\ UNCHANGED auxVars

\* backfill: "if past_date.weekday() >= 5: continue" (lines 197-201)
BackfillWeekend ==
    /\ builder = "build_day" /\ pc = "main" /\ day <= DAYS_TO_BACKFILL
    /\ i = 0 /\ Weekday(day) >= 5
    /\ day' = day + 1
    /\ UNCHANGED <<generated_files, flip_summary, attempted, today, disk>>
    /\ UNCHANGED coreVars
    /\ UNCHANGED <<masterVars, batchVars, filterVars, histVars, pressureVars>>

\* backfill, one iteration of "for ticker in TICKERS" (lines 205-209)
BackfillTicker ==
    /\ builder = "build_day" /\ pc = "main" /\ day <= DAYS_TO_BACKFILL
    /\ Weekday(day) < 5 /\ i < Len(TICKERS)
    /\ LET ticker == TICKERS[i + 1]
       IN \E out \in BuildDayOutcomes :
            /\ (out = "skip") = (<<ticker, day>> \in disk)
            /\ attempted' = Append(attempted, <<ticker, day>>)
            /\ disk' = IF out = "saved" THEN disk \cup {<<ticker, day>>} ELSE disk
    /\ i' = i + 1
    /\ UNCHANGED <<generated_files, flip_summary, today, day>>
    /\ UNCHANGED <<builder, pc, complete, rows, grouped, saved, ret, df, df_sorted,
                   conv_flip, spot_price>>
    /\ UNCHANGED <<masterVars, batchVars, filterVars, histVars, pressureVars>>

\* backfill: the ticker loop of a day is exhausted, next i of range(1, DAYS + 1)
BackfillNextDay ==
    /\ builder = "build_day" /\ pc = "main" /\ day <= DAYS_TO_BACKFILL
    /\ Weekday(day) < 5 /\ i = Len(TICKERS)
    /\ day' = day + 1
    /\ i' = 0
    /\ UNCHANGED <<generated_files, flip_summary, attempted, today, disk>>
    /\ UNCHANGED <<builder, pc, complete, rows, grouped, saved, ret, df, df_sorted,
                   conv_flip, spot_price>>
    /\ UNCHANGED <<masterVars, batchVars, filterVars, histVars, pressureVars>>

\* backfill after the day loop (line 211)
BackfillEnd ==
    /\ builder = "build_day" /\ pc = "main" /\ day > DAYS_TO_BACKFILL
    /\ pc' = "end"
    /\ UNCHANGED <<builder, i, complete, rows, grouped, saved, ret, df, df_sorted,
                   conv_flip, spot_price>>
    /\ UNCHANGED auxVars

NextMain ==
    \/ MainGexTicker
    \/ MainGexEnd
    \/ BackfillWeekend
    \/ BackfillTicker
    \/ BackfillNextDay
    \/ BackfillEnd

\* every call returns or raises (finite loops, every request has a timeout),
\* so the script always takes its next step
SpecMain == InitMain /\ [][NextMain]_vars /\ WF_vars(NextMain)

---------------------------------------------------------------------------
(* gex_backfill_utility.py: the day loop with build_day step by step: the  *)
(* file check, the three kinds of request, the save.  fetched is the list   *)
(* of requests of the call in progress; a file on disk is the name's ticker *)
(* and day with the run that wrote it.                                      *)

BackfillTickers == 2       \* 3 in the source
MaxExisting == 2

\* the tickers of the backfill's list that the day loop runs over
BfTickers == SubSeq(TICKERS, 1, BackfillTickers)

\* fname = "{symbol}_GEX_robust_{file_tag}.csv" (line 116), as written by run
RobustFile(ticker, d, run) == [ticker |-> ticker, day |-> d, run |-> run]

\* files an earlier run of the backfill may have left, today's date included
EarlierFiles ==
    {RobustFile(t, d, "earlier") : t \in Range(BfTickers), d \in 0..DAYS_TO_BACKFILL}

\* os.path.exists(fname) (line 117)
FileExists(ticker, d) == \E f \in disk : f.ticker = ticker /\ f.day = d

\* to_csv(fname) (line 186): the file is created or replaced
to_csv(ticker, d) ==
    {f \in disk : ~(f.ticker = ticker /\ f.day = d)} \cup {RobustFile(ticker, d, "this")}

InitBackfill ==
    /\ builder = "build_day"
    /\ pc = "call"
    /\ i = 0
    /\ day = 1
    /\ today \in 0..6
    /\ disk \in {fs \in SUBSET EarlierFiles : Cardinality(fs) <= MaxExisting}
    /\ attempted = <<>>
    /\ fetched = <<>> /\ filtered_chain = <<>>
    /\ generated_files = <<>> /\ flip_summary = {}
    /\ spot_price \in SpotPrices
    /\ complete = 0 /\ rows = <<>> /\ grouped = <<>> /\ saved = FALSE /\ ret = None
    /\ df = <<>> /\ df_sorted = <<>> /\ conv_flip = None
    /\ MasterIdle /\ FilterIdle /\ HistIdle /\ PressureIdle

\* mutant: build_day without the file check
BfCallNoCheck ==
    /\ pc = "call" /\ day <= DAYS_TO_BACKFILL
    /\ Weekday(day) < 5 /\ i < Len(BfTickers)
    /\ attempted' = Append(attempted, <<BfTickers[i + 1], day>>)
    /\ fetched' = <<>>
    /\ pc' = "price"
    /\ UNCHANGED <<i, day, today, disk, generated_files, flip_summary, filtered_chain>>
    /\ UNCHANGED <<coreVarsButPcI, masterVars, filterVars, histVars, pressureVars>>

\* "if past_date.weekday() >= 5: continue" (lines 197-201)
BfWeekend ==
    /\ pc = "call" /\ day <= DAYS_TO_BACKFILL
    /\ i = 0 /\ Weekday(day) >= 5
    /\ day' = day + 1
    /\ UNCHANGED <<pc, i, today, disk, attempted, fetched, generated_files,
                   flip_summary, filtered_chain>>
    /\ UNCHANGED <<coreVarsButPcI, masterVars, filterVars, histVars, pressureVars>>

\* build_day(ticker, past_date) is called (line 207); lines 112-119: return
\* when the file exists
BfCall ==
    /\ pc = "call" /\ day <= DAYS_TO_BACKFILL
    /\ Weekday(day) < 5 /\ i < Len(BfTickers)
    /\ attempted' = Append(attempted, <<BfTickers[i + 1], day>>)
    /\ fetched' = <<>>
    /\ IF FileExists(BfTickers[i + 1], day)
       THEN i' = i + 1 /\ pc' = pc
       ELSE i' = i /\ pc' = "price"
    /\ UNCHANGED <<day, today, disk, generated_files, flip_summary, filtered_chain>>
    /\ UNCHANGED <<coreVarsButPcI, masterVars, filterVars, histVars, pressureVars>>

\* get_historical_price (lines 124-127): return when there is no price
BfPrice ==
    /\ pc = "price"
    /\ fetched' = Append(fetched, <<"price", BfTickers[i + 1], day>>)
    /\ \E ok \in BOOLEAN :
          IF ok THEN i' = i /\ pc' = "chain"
          ELSE i' = i + 1 /\ pc' = "call"
    /\ UNCHANGED <<day, today, disk, attempted, generated_files, flip_summary,
                   filtered_chain>>
    /\ UNCHANGED <<coreVarsButPcI, masterVars, filterVars, histVars, pressureVars>>

\* get_historical_chain (lines 130-133): return when the chain is empty
BfChain ==
    /\ pc = "chain"
    /\ fetched' = Append(fetched, <<"chain", BfTickers[i + 1], day>>)
    /\ \E ok \in BOOLEAN :
          IF ok THEN i' = i /\ pc' = "quotes"
          ELSE i' = i + 1 /\ pc' = "call"
    /\ UNCHANGED <<day, today, disk, attempted, generated_files, flip_summary,
                   filtered_chain>>
    /\ UNCHANGED <<coreVarsButPcI, masterVars, filterVars, histVars, pressureVars>>

\* the strike filter, the quote loop and the save (lines 135-187): n quotes
\* are requested (none when no strike is in range); with rows the file is
\* written, unless to_csv raises, which the loop catches (line 208)
BfQuotesAndSave ==
    /\ pc = "quotes"
    /\ \E n \in 0..1, has_rows \in BOOLEAN, written \in BOOLEAN :
          /\ (n = 0) => ~has_rows
          /\ has_rows \/ ~written
          /\ fetched' = fetched \o [k \in 1..n |-> <<"quote", BfTickers[i + 1], day>>]
          /\ disk' = IF has_rows /\ written THEN to_csv(BfTickers[i + 1], day) ELSE disk
    /\ i' = i + 1
    /\ pc' = "call"
    /\ UNCHANGED <<day, today, attempted, generated_files, flip_summary, filtered_chain>>
    /\ UNCHANGED <<coreVarsButPcI, masterVars, filterVars, histVars, pressureVars>>

\* the ticker loop of a day is exhausted: next i of range(1, DAYS + 1)
BfNextDay ==
    /\ pc = "call" /\ day <= DAYS_TO_BACKFILL
    /\ Weekday(day) < 5 /\ i = Len(BfTickers)
    /\ day' = day + 1
    /\ i' = 0
    /\ UNCHANGED <<pc, today, disk, attempted, fetched, generated_files,
                   flip_summary, filtered_chain>>
    /\ UNCHANGED <<coreVarsButPcI, masterVars, filterVars, histVars, pressureVars>>

\* after the day loop (line 211)
BfEnd ==
    /\ pc = "call" /\ day > DAYS_TO_BACKFILL
    /\ pc' = "end"
    /\ UNCHANGED <<i, day, today, disk, attempted, fetched, generated_files,
                   flip_summary, filtered_chain>>
    /\ UNCHANGED <<coreVarsButPcI, masterVars, filterVars, histVars, pressureVars>>

NextBackfill ==
    \/ BfWeekend
    \/ BfCall
    \/ BfPrice
    \/ BfChain
    \/ BfQuotesAndSave
    \/ BfNextDay
    \/ BfEnd

SpecBackfill == InitBackfill /\ [][NextBackfill]_vars

---------------------------------------------------------------------------
(* infer_option_type (both builders) applied to the symbols of a chain, one *)
(* after the other, as the row loops apply it.                              *)

MaxSymbols == 2

InitInfer ==
    /\ filtered_chain \in UNION {[1..n -> OptionSymbols] : n \in 1..MaxSymbols}
    /\ fetched = <<>>
    /\ pc = "infer"
    /\ i = 0
    /\ builder \in {"build_gex", "build_day"}
    /\ spot_price \in SpotPrices
    /\ complete = 0 /\ rows = <<>> /\ grouped = <<>> /\ saved = FALSE /\ ret = None
    /\ df = <<>> /\ df_sorted = <<>> /\ conv_flip = None
    /\ MasterIdle /\ FilterIdle /\ MainIdle /\ HistIdle /\ PressureIdle

\* "type": infer_option_type(opt) for the next symbol (gex_builder.py line
\* 243, gex_backfill_utility.py line 165)
InferNext ==
    /\ pc = "infer" /\ i < Len(filtered_chain)
    /\ fetched' = Append(fetched,
                     [opt |-> filtered_chain[i + 1],
                      type |-> infer_option_type(filtered_chain[i + 1])])
    /\ i' = i + 1
    /\ UNCHANGED <<pc, filtered_chain, coreVarsButPcI, masterVars, filterVars,
                   mainVars, histVars, pressureVars>>

\* the loop over the symbols is exhausted
InferEnd ==
    /\ pc = "infer" /\ i = Len(filtered_chain)
    /\ pc' = "inferred"
    /\ UNCHANGED <<i, filtered_chain, fetched, coreVarsButPcI, masterVars,
                   filterVars, mainVars, histVars, pressureVars>>

NextInfer ==
    \/ InferNext
    \/ InferEnd

SpecInfer == InitInfer /\ [][NextInfer]_vars

---------------------------------------------------------------------------
(* The histogram bars of the two Pine converters: process_file_data of the  *)
(* historical converter and generate_pine_file of the standalone one, on a  *)
(* CSV whose rows are strike and net_gex.                                   *)

MaxBarRows == 3
TopStrikes == 2            \* head(40) and head(50) in the source

HIST_MAX_BARS == 25
STANDALONE_MAX_BARS == 30

NetGexValues == {-30, -4, -1, 0, 1, 30}

\* the strike of the k-th row of the file
StrikeOfRow(k) == 100 + 5 * k

\* the files: up to MaxBarRows rows, a header alone included
BarFiles ==
    UNION {[1..n -> NetGexValues] : n \in 0..MaxBarRows}

CsvFrame(f) == [k \in 1..Len(f) |-> [strike |-> StrikeOfRow(k), net_gex |-> f[k]]]

\* the orders sort_values('abs_net_gex', ascending=False) can leave the rows
\* in (the default sort is not stable: ties come in any order)
DescendingOrders(d) ==
    {f \in Perms(Len(d)) :
        \A k \in 1..(Len(d) - 1) : Abs(d[f[k]].net_gex) >= Abs(d[f[k + 1]].net_gex)}

\* .head(n)
head(d, n) == SubSeq(d, 1, IF Len(d) < n THEN Len(d) ELSE n)

\* top_strikes['abs_net_gex'].max(), and "if max_val == 0: max_val = 1"
max_val(top) ==
    LET m == Max({Abs(top[k].net_gex) : k \in 1..Len(top)})
    IN IF m = 0 THEN 1 ELSE m

\* mutant: no minimum length
bar_length_unclamped(abs_net_gex, mv, bars) == (abs_net_gex * bars) \div mv

\* length = int((row['abs_net_gex'] / max_val) * bars); if length < 2: 2
bar_length(abs_net_gex, mv, bars) ==
    LET length == (abs_net_gex * bars) \div mv
    IN IF length < 2 THEN 2 ELSE length

\* p_strikes, p_lengths, p_signs of the loop over top_strikes
BarArrays(top, bars) ==
    [strikes |-> [k \in 1..Len(top) |-> top[k].strike],
     lengths |-> [k \in 1..Len(top) |->
                    bar_length(Abs(top[k].net_gex), max_val(top), bars)],
     signs |-> [k \in 1..Len(top) |-> IF top[k].net_gex >= 0 THEN 1 ELSE -1]]

InitBars ==
    /\ df \in {CsvFrame(f) : f \in BarFiles}
    /\ pc = "csv"
    /\ ret = None
    /\ df_sorted = <<>>
    /\ i = 0
    /\ builder = "build_gex"
    /\ spot_price \in SpotPrices
    /\ complete = 0 /\ rows = <<>> /\ grouped = <<>> /\ saved = FALSE
    /\ conv_flip = None
    /\ MasterIdle /\ BatchIdle /\ FilterIdle /\ MainIdle /\ HistIdle /\ PressureIdle

\* process_file_data (historical converter), lines 36-78: with no row idxmax
\* raises and the except clause returns None
HistBars ==
    /\ pc = "csv"
    /\ pc' = "hist_bars"
    /\ IF df = <<>>
       THEN df_sorted' = <<>> /\ ret' = None
       ELSE \E f \in DescendingOrders(df) :
              /\ df_sorted' = head(Permute(df, f), TopStrikes)
              /\ ret' = Some(BarArrays(df_sorted', HIST_MAX_BARS))
    /\ UNCHANGED <<builder, i, complete, rows, grouped, saved, df, conv_flip, spot_price>>
    /\ UNCHANGED auxVars

\* generate_pine_file (standalone converter), lines 46-86: the same with 30;
\* ret is the arrays written into the Pine file
StandaloneBars ==
    /\ pc = "csv"
    /\ pc' = "standalone_bars"
    /\ IF df = <<>>
       THEN df_sorted' = <<>> /\ ret' = None
       ELSE \E f \in DescendingOrders(df) :
              /\ df_sorted' = head(Permute(df, f), TopStrikes)
              /\ ret' = Some(BarArrays(df_sorted', STANDALONE_MAX_BARS))
    /\ UNCHANGED <<builder, i, complete, rows, grouped, saved, df, conv_flip, spot_price>>
    /\ UNCHANGED auxVars

NextBars ==
    \/ HistBars
    \/ StandaloneBars

SpecBars == InitBars /\ [][NextBars]_vars

---------------------------------------------------------------------------
(* gex_builder.py: smart_filter_chain, one action per iteration of its loop *)
(* over the expirations.                                                    *)

MAX_OPTIONS == 2           \* 800 in the source
MaxChainLen == 4

\* expiry dates, YYMMDD: six-digit strings compare like these numbers
FilterExpiries == {250117, 250124, 250131}

\* the symbols of a chain; expiry = None: a string the regular expression of
\* parse_option_symbol does not match
ChainSymbols == [expiry : Opt(FilterExpiries), letter : TypeLetters]

\* match.group(2), or "999999"
parse_option_symbol(sym) == IF sym.expiry = None THEN 999999 ELSE sym.expiry[1]

RECURSIVE SortByExpiry(_)
\* parsed_chain.sort(key=lambda x: x[1]): stable
SortByExpiry(c) ==
    IF c = <<>> THEN <<>>
    ELSE LET n == Len(c)
             rest == SortByExpiry(SubSeq(c, 1, n - 1))
             e == parse_option_symbol(c[n])
         IN SelectSeq(rest, LAMBDA x : parse_option_symbol(x) <= e) \o <<c[n]>>
            \o SelectSeq(rest, LAMBDA x : parse_option_symbol(x) > e)

\* sorted(list(set(x[1] for x in parsed_chain)))
unique_expiries(c) == SortAsc({parse_option_symbol(c[k]) : k \in 1..Len(c)})

\* [x[0] for x in parsed_chain if x[1] == expiry]
expiry_options(c, expiry) ==
    SelectSeq(SortByExpiry(c), LAMBDA x : parse_option_symbol(x) = expiry)

\* expiry_options[:MAX_OPTIONS]
FirstN(xs, n) == SubSeq(xs, 1, IF Len(xs) < n THEN Len(xs) ELSE n)

InitFilter ==
    /\ chain \in UNION {[1..n -> ChainSymbols] : n \in 0..MaxChainLen}
    /\ selected_options = <<>>
    /\ current_count = 0
    /\ filtered_chain = <<>> /\ fetched = <<>>
    /\ pc = "filter"
    /\ i = 0
    /\ builder = "build_gex"
    /\ spot_price \in SpotPrices
    /\ complete = 0 /\ rows = <<>> /\ grouped = <<>> /\ saved = FALSE /\ ret = None
    /\ df = <<>> /\ df_sorted = <<>> /\ conv_flip = None
    /\ MasterIdle /\ MainIdle /\ HistIdle /\ PressureIdle

\* mutant: the first expiry is taken whole even when it is over the limit
FilterExpiryWhole ==
    /\ pc = "filter" /\ chain # <<>> /\ i < Len(unique_expiries(chain))
    /\ LET opts == expiry_options(chain, unique_expiries(chain)[i + 1])
       IN IF current_count + Len(opts) > MAX_OPTIONS
          THEN /\ selected_options' =
                     IF current_count = 0 THEN selected_options \o opts
                     ELSE selected_options
               /\ filtered_chain' = selected_options'
               /\ pc' = "filtered"
               /\ UNCHANGED <<current_count, i>>
          ELSE /\ selected_options' = selected_options \o opts
               /\ current_count' = current_count + Len(opts)
               /\ i' = i + 1
               /\ UNCHANGED <<pc, filtered_chain>>
    /\ UNCHANGED <<chain, fetched, builder, complete, rows, grouped, saved, ret, df,
                   df_sorted, conv_flip, spot_price>>
    /\ UNCHANGED <<masterVars, mainVars, histVars, pressureVars>>

\* mutant: an expiry over the limit is skipped and later ones are still tried
FilterExpiryContinue ==
    /\ pc = "filter" /\ chain # <<>> /\ i < Len(unique_expiries(chain))
    /\ LET opts == expiry_options(chain, unique_expiries(chain)[i + 1])
       IN IF current_count + Len(opts) > MAX_OPTIONS
          THEN /\ selected_options' =
                     IF current_count = 0
                     THEN selected_options \o FirstN(opts, MAX_OPTIONS)
                     ELSE selected_options
               /\ IF current_count = 0
                  THEN /\ filtered_chain' = selected_options'
                       /\ pc' = "filtered"
                       /\ UNCHANGED <<current_count, i>>
                  ELSE /\ i' = i + 1
                       /\ UNCHANGED <<current_count, pc, filtered_chain>>
          ELSE /\ selected_options' = selected_options \o opts
               /\ current_count' = current_count + Len(opts)
               /\ i' = i + 1
               /\ UNCHANGED <<pc, filtered_chain>>
    /\ UNCHANGED <<chain, fetched, builder, complete, rows, grouped, saved, ret, df,
                   df_sorted, conv_flip, spot_price>>
    /\ UNCHANGED <<masterVars, mainVars, histVars, pressureVars>>

\* "if not chain: return []" (line 119)
FilterEmpty ==
    /\ pc = "filter" /\ chain = <<>>
    /\ filtered_chain' = <<>>
    /\ pc' = "filtered"
    /\ UNCHANGED <<chain, selected_options, current_count, fetched, builder, i,
                   complete, rows, grouped, saved, ret, df, df_sorted, conv_flip,
                   spot_price>>
    /\ UNCHANGED <<masterVars, mainVars, histVars, pressureVars>>

\* one iteration of "for expiry in unique_expiries" (lines 135-151); on break
\* the function returns selected_options (line 153)
FilterExpiry ==
    /\ pc = "filter" /\ chain # <<>> /\ i < Len(unique_expiries(chain))
    /\ LET opts == expiry_options(chain, unique_expiries(chain)[i + 1])
       IN IF current_count + Len(opts) > MAX_OPTIONS
          THEN /\ selected_options' =
                     IF current_count = 0
                     THEN selected_options \o FirstN(opts, MAX_OPTIONS)
                     ELSE selected_options
               /\ filtered_chain' = selected_options'
               /\ pc' = "filtered"
               /\ UNCHANGED <<current_count, i>>
          ELSE /\ selected_options' = selected_options \o opts
               /\ current_count' = current_count + Len(opts)
               /\ i' = i + 1
               /\ UNCHANGED <<pc, filtered_chain>>
    /\ UNCHANGED <<chain, fetched, builder, complete, rows, grouped, saved, ret, df,
                   df_sorted, conv_flip, spot_price>>
    /\ UNCHANGED <<masterVars, mainVars, histVars, pressureVars>>

\* the loop is exhausted: return selected_options (line 153)
FilterReturn ==
    /\ pc = "filter" /\ chain # <<>> /\ i = Len(unique_expiries(chain))
    /\ filtered_chain' = selected_options
    /\ pc' = "filtered"
    /\ UNCHANGED <<chain, selected_options, current_count, fetched, builder, i,
                   complete, rows, grouped, saved, ret, df, df_sorted, conv_flip,
                   spot_price>>
    /\ UNCHANGED <<masterVars, mainVars, histVars, pressureVars>>

NextFilter ==
    \/ FilterEmpty
    \/ FilterExpiry
    \/ FilterReturn

SpecFilter == InitFilter /\ [][NextFilter]_vars

---------------------------------------------------------------------------
(* gex_to_pinescript_converter.py: the listing of the directory, the loop  *)
(* that builds history_map and the loop that writes one block per symbol.  *)

MaxFiles == 3

HistSymbols == <<"QQQ", "SPY">>

\* the middle of a file name: "" is a name of three parts (SPY_GEX_<last>.csv)
HistTags == <<"", "precision", "robust">>

HistDates == {20251220, 20251224}

\* a name SYMBOL_GEX_<tag>_<last>.csv; date = None: the last part is not a
\* date tag of eight characters (SPY_GEX_robust_latest.csv)
HistNames == [symbol : Range(HistSymbols), tag : Range(HistTags), date : Opt(HistDates)]

IndexOf(xs, x) == CHOOSE k \in 1..Len(xs) : xs[k] = x

\* the parts of a name after SYMBOL_GEX_, as ranks in the order of their
\* first characters: digits < "l" < "p" < "r"
NameKey(f) ==
    LET last == IF f.date = None THEN <<1, 0>> ELSE <<0, f.date[1]>>
    IN IF f.tag = "" THEN <<last[1], last[2], 0, 0>>
       ELSE <<IndexOf(HistTags, f.tag), 0, last[1], last[2]>>

RECURSIVE LexLess(_, _)
LexLess(a, b) ==
    /\ a # <<>>
    /\ \/ a[1] < b[1]
       \/ a[1] = b[1] /\ LexLess(Tail(a), Tail(b))

\* f < g as Python compares the two file names
NameBefore(f, g) ==
    LexLess(<<IndexOf(HistSymbols, f.symbol)>> \o NameKey(f),
            <<IndexOf(HistSymbols, g.symbol)>> \o NameKey(g))

RECURSIVE SortFiles(_)
\* files.sort() (line 84)
SortFiles(S) ==
    IF S = {} THEN <<>>
    ELSE LET m == CHOOSE x \in S : \A y \in S \ {x} : NameBefore(x, y)
         IN <<m>> \o SortFiles(S \ {m})

\* len(parts) >= 4 and len(date_str) == 8 (lines 97, 103)
WellNamed(f) == f.tag # "" /\ f.date # None

\* the record appended for file f (lines 110-115); data stands for what
\* process_file_data read from f
HistRecord(f) ==
    [year |-> f.date[1] \div 10000, month |-> (f.date[1] \div 100) % 100,
     day |-> f.date[1] % 100, data |-> [symbol |-> f.symbol, tag |-> f.tag, date |-> f.date]]

InitHist ==
    /\ \E names \in SUBSET HistNames :
          /\ Cardinality(names) \in 1..MaxFiles
          /\ \E readable \in SUBSET names :
                files = [k \in 1..Cardinality(names) |->
                           [name |-> SortFiles(names)[k],
                            readable |-> SortFiles(names)[k] \in readable]]
    /\ history_map = [s \in Range(HistSymbols) |-> <<>>]
    /\ last_record = [s \in Range(HistSymbols) |-> None]
    /\ pc = "history"
    /\ i = 0
    /\ builder = "build_gex"
    /\ spot_price \in SpotPrices
    /\ complete = 0 /\ rows = <<>> /\ grouped = <<>> /\ saved = FALSE /\ ret = None
    /\ df = <<>> /\ df_sorted = <<>> /\ conv_flip = None
    /\ MasterIdle /\ BatchIdle /\ FilterIdle /\ MainIdle /\ PressureIdle

\* "continue" for a malformed name (lines 97, 103) or a file that
\* process_file_data could not read ("if data", line 106)
HistSkipFile ==
    /\ pc = "history" /\ i < Len(files)
    /\ ~(WellNamed(files[i + 1].name) /\ files[i + 1].readable)
    /\ i' = i + 1
    /\ UNCHANGED <<pc, coreVarsButPcI, masterVars, batchVars, filterVars, mainVars,
                   histVars, pressureVars>>

\* history_map[symbol].append(...) (lines 106-115)
HistAppendFile ==
    /\ pc = "history" /\ i < Len(files)
    /\ WellNamed(files[i + 1].name) /\ files[i + 1].readable
    /\ history_map' =
          [history_map EXCEPT ![files[i + 1].name.symbol] =
              Append(@, HistRecord(files[i + 1].name))]
    /\ i' = i + 1
    /\ UNCHANGED <<pc, coreVarsButPcI, masterVars, batchVars, filterVars, mainVars,
                   files, last_record, pressureVars>>

\* "for symbol, records in history_map.items(): last_record = records[-1]"
\* (lines 147-177), for every symbol that has a list
HistWrite ==
    /\ pc = "history" /\ i = Len(files)
    /\ last_record' =
          [s \in Range(HistSymbols) |->
              IF history_map[s] = <<>> THEN None
              ELSE Some(history_map[s][Len(history_map[s])])]
    /\ pc' = "written"
    /\ UNCHANGED <<i, coreVarsButPcI, masterVars, batchVars, filterVars, mainVars,
                   files, history_map, pressureVars>>

NextHist ==
    \/ HistSkipFile
    \/ HistAppendFile
    \/ HistWrite

SpecHist == InitHist /\ [][NextHist]_vars

---------------------------------------------------------------------------
(* Vocabulary of the properties, stated on tables and rows directly *)

\* the strikes of a table, and adjacency in ascending strike order
StrikesOf(T) == {T[k].strike : k \in DOMAIN T}

Adjacent(T, a, b) ==
    /\ a \in StrikesOf(T) /\ b \in StrikesOf(T) /\ a < b
    /\ ~ \E c \in StrikesOf(T) : a < c /\ c < b

\* cumulative net GEX at strike s: net GEX of every row with strike <= s
CumAt(T, s) ==
    SeqSum([k \in 1..Len(T) |-> IF T[k].strike <= s THEN T[k].net_gex ELSE 0])

\* adjacent strike pairs whose cumulative net GEX differ in sign (-1, 0, +1)
SignChanges(T) ==
    {p \in StrikesOf(T) \X StrikesOf(T) :
        Adjacent(T, p[1], p[2]) /\ Sign(CumAt(T, p[1])) # Sign(CumAt(T, p[2]))}

FirstSignChange(T) ==
    CHOOSE p \in SignChanges(T) : \A r \in SignChanges(T) : p[1] <= r[1]

\* the (table, flip zone) pairs the current state holds
FlipResults ==
    (IF pc = "done" /\ builder = "build_gex" /\ saved THEN {<<grouped, ret[2]>>} ELSE {})
    \cup (IF pc \in {"hist", "standalone"} THEN {<<df, conv_flip>>} ELSE {})

\* the (input table, df_sorted) pairs the current state holds
CumResults ==
    (IF pc = "done" /\ builder = "build_gex" /\ saved THEN {<<grouped, df_sorted>>} ELSE {})
    \cup (IF pc \in {"hist", "standalone"} THEN {<<df, df_sorted>>} ELSE {})

\* sum of the GEX of the rows of type t at strike s
TypeGexAt(rs, s, t) ==
    SeqSum([k \in 1..Len(rs) |->
              IF rs[k].strike = s /\ rs[k].type = t THEN rs[k].GEX ELSE 0])

TableReady == pc = "done" /\ saved

---------------------------------------------------------------------------
(* C1: with at least two strikes, a flip zone that is returned is the      *)
(* midpoint of the first adjacent strike pair (ascending) whose cumulative *)
(* net GEX signs differ, and it lies strictly between those two strikes.   *)
C1_FlipIsFirstMidpoint ==
    \A fr \in FlipResults :
        LET T == fr[1]
            f == fr[2]
        IN Len(T) >= 2 =>
             /\ SignChanges(T) # {} =>
                    f = <<FirstSignChange(T)[1] + FirstSignChange(T)[2], 2>>
             /\ f # None =>
                    \E p \in SignChanges(T) :
                        /\ f[2] * p[1] < f[1]
                        /\ f[1] < f[2] * p[2]

\* a file with three strikes out of order and two sign changes
C1_Witness ==
    /\ pc = "hist"
    /\ Len(df) = 3
    /\ df[1].strike > df[2].strike
    /\ Cardinality(SignChanges(df)) = 2
    /\ conv_flip # None

(* C2: the cumulative series behind the flip zone is the prefix sum of     *)
(* net_gex over ascending strikes, whatever the order of the input rows.   *)
C2_CumIsPrefixSumAscending ==
    \A cr \in CumResults :
        LET T == cr[1]
            d == cr[2]
        IN /\ Len(d) = Len(T)
           /\ \A k \in 1..Len(T) :
                \E j \in 1..Len(d) :
                    d[j].strike = T[k].strike /\ d[j].net_gex = T[k].net_gex
           /\ \A k \in 1..(Len(d) - 1) : d[k].strike < d[k + 1].strike
           /\ Len(d) >= 1 => d[1].cum_gex = d[1].net_gex
           /\ \A k \in 2..Len(d) : d[k].cum_gex = d[k - 1].cum_gex + d[k].net_gex

\* a file whose rows are not in strike order
C2_Witness ==
    /\ pc = "standalone"
    /\ Len(df) = 3
    /\ df[1].strike > df[3].strike
    /\ \E k \in 1..3 : df_sorted[k].strike # df[k].strike
    /\ df_sorted[3].cum_gex # 0

(* C3: in the saved table of build_gex and of build_day, net_gex is        *)
(* call_gex minus put_gex, these being the sums of the GEX of the call     *)
(* rows and of the put rows at the strike.                                 *)
C3_NetIsCallMinusPut ==
    TableReady =>
        \A k \in 1..Len(grouped) :
            LET s == grouped[k].strike
            IN /\ grouped[k].call_gex = TypeGexAt(rows, s, "C")
               /\ grouped[k].put_gex = TypeGexAt(rows, s, "P")
               /\ grouped[k].net_gex = TypeGexAt(rows, s, "C") - TypeGexAt(rows, s, "P")

C3_Witness ==
    /\ TableReady
    /\ \E k \in 1..Len(grouped) :
          /\ grouped[k].call_gex > 0
          /\ grouped[k].put_gex > 0
          /\ grouped[k].net_gex = 0

(* C4: GSI is null exactly when call_gex and put_gex are both zero (never  *)
(* zero there), and |call_gex| / (|call_gex| + |put_gex|) otherwise.       *)
C4_GsiNullIffBothZero ==
    (TableReady /\ builder = "build_gex") =>
        \A k \in 1..Len(grouped) :
            LET c == grouped[k].call_gex
                p == grouped[k].put_gex
            IN IF c = 0 /\ p = 0
               THEN grouped[k].GSI = None
               ELSE grouped[k].GSI = <<Abs(c), Abs(c) + Abs(p)>>

(* C5: a quote with any of strike, gamma, open interest or underlying      *)
(* price missing or null (and a quote that could not be fetched) adds no   *)
(* row: a loop iteration that saw no complete quote leaves rows unchanged. *)
C5_IncompleteQuoteAddsNothing ==
    [][(pc = "loop" /\ complete' = complete) => rows' = rows]_vars

\* what the caller sees of a run without data: no file, no table, and
\* (None, None) from build_gex
NoDataOutcome ==
    /\ ~saved
    /\ grouped = <<>>
    /\ ret = (IF builder = "build_gex" THEN <<None, None>> ELSE None)

C7_OneRowPerStrike ==
    TableReady =>
        /\ StrikesOf(grouped) = StrikesOf(rows)
        /\ \A a, b \in 1..Len(grouped) : grouped[a].strike = grouped[b].strike => a = b
        /\ \A k \in 1..Len(grouped) :
              LET s == grouped[k].strike
                  hasCall == \E r \in 1..Len(rows) : rows[r].strike = s /\ rows[r].type = "C"
                  hasPut == \E r \in 1..Len(rows) : rows[r].strike = s /\ rows[r].type = "P"
              IN /\ ~hasPut => (grouped[k].put_gex = 0
                                /\ grouped[k].net_gex = grouped[k].call_gex)
                 /\ ~hasCall => (grouped[k].call_gex = 0
                                 /\ grouped[k].net_gex = -grouped[k].put_gex)

\* one strike seen only as a call, another only as a put
C7_Witness ==
    /\ TableReady /\ builder = "build_gex"
    /\ \E a, b \in 1..Len(grouped) :
          /\ grouped[a].call_gex # 0
          /\ ~ \E r \in 1..Len(rows) : rows[r].strike = grouped[a].strike /\ rows[r].type = "P"
          /\ grouped[b].put_gex # 0
          /\ ~ \E r \in 1..Len(rows) : rows[r].strike = grouped[b].strike /\ rows[r].type = "C"

\* one fixed arrangement of a collection of rows, the same for all of its
\* permutations (the choice depends on the set of permutations only)
Arranged(rs) ==
    CHOOSE s \in {Permute(rs, f) : f \in Perms(Len(rs))} : TRUE

C9_NoSignChangeNoFlip ==
    \A fr \in FlipResults :
        LET T == fr[1]
            f == fr[2]
        IN /\ SignChanges(T) = {} => f = None
           /\ Len(T) = 1 => f = None
           /\ (\A k \in 1..Len(T) : T[k].net_gex < 0) => f = None

\* several strikes of mixed net GEX whose running sum stays positive
C9_Witness ==
    /\ TableReady /\ builder = "build_gex"
    /\ Len(grouped) >= 2
    /\ \E k \in 1..Len(grouped) : grouped[k].net_gex < 0
    /\ \E k \in 1..Len(grouped) : grouped[k].net_gex > 0
    /\ ret[2] = None

(* C10: call_gex (put_gex) of a strike is the sum over all call (put)      *)
(* observations at it of gamma * openInterest * 100 * underlyingPrice.     *)
C10_GexIsAdditive ==
    (TableReady /\ builder = "build_gex") =>
        \A k \in 1..Len(grouped) :
            LET contrib(t) ==
                    SeqSum([r \in 1..Len(rows) |->
                              IF rows[r].strike = grouped[k].strike /\ rows[r].type = t
                              THEN rows[r].gamma * rows[r].oi * 100 * rows[r].underlying
                              ELSE 0])
            IN /\ grouped[k].call_gex = contrib("C")
               /\ grouped[k].put_gex = contrib("P")

\* two call contracts at one strike, both with exposure
C10_Witness ==
    /\ TableReady /\ builder = "build_gex"
    /\ \E a, b \in 1..Len(rows) :
          /\ a # b
          /\ rows[a].strike = rows[b].strike
          /\ rows[a].type = "C" /\ rows[b].type = "C"
          /\ rows[a].GEX > 0 /\ rows[b].GEX > 0
          /\ \E k \in 1..Len(grouped) :
                grouped[k].strike = rows[a].strike
                /\ grouped[k].call_gex = rows[a].GEX + rows[b].GEX

(* C11: totalGex, the total the dashboard shows, equals the sum of net_gex *)
(* over all strikes of the snapshot and equals the cumulative GEX at the   *)
(* last (highest) strike.                                                  *)
C11_TotalIsSumOfNet ==
    pc = "dash" =>
        /\ total_gex = SeqSum([k \in 1..Len(grouped) |-> grouped[k].net_gex])
        /\ total_gex = df_sorted[Len(df_sorted)].cum_gex

\* totalGex of the snapshot as the spec defines it
SnapshotTotal == SeqSum([k \in 1..Len(grouped) |-> grouped[k].net_gex])

(* C12: the regime shown is "Short Vol" exactly when totalGex of the       *)
(* snapshot is positive, and "Long Vol" when it is zero or negative.       *)
C12_RegimeBySignOfTotal ==
    pc = "dash" =>
        regime = Some(IF SnapshotTotal > 0 THEN "Short Vol (Pos GEX)"
                      ELSE "Long Vol (Neg GEX)")

\* only one option type among the observations
OneSided(rs) == rs # <<>> /\ \A a, b \in 1..Len(rs) : rs[a].type = rs[b].type

\* what build_gex hands to its caller: the return value and the CSV
CallerView(rs) ==
    <<<<Some("precision"), compute_flip_zone(GexTable(rs))>>, GexTable(rs)>>

\* the same observations plus one of the other type, with no exposure
WithOtherSide(rs) ==
    Append(rs, [rs[1] EXCEPT !.type = IF rs[1].type = "C" THEN "P" ELSE "C",
                              !.gamma = 0, !.GEX = 0])

(* C13: with only calls or only puts in the whole snapshot build_gex still  *)
(* returns a table, with zero for the missing side at every strike, and the *)
(* caller is told: what it receives differs from what it receives for the   *)
(* same snapshot with the other type observed too.                          *)
C13_OneSidedIsSurfaced ==
    (TableReady /\ builder = "build_gex" /\ OneSided(rows)) =>
        /\ ret[1] # None /\ Len(grouped) >= 1
        /\ \A k \in 1..Len(grouped) :
              IF rows[1].type = "C" THEN grouped[k].put_gex = 0
              ELSE grouped[k].call_gex = 0
        /\ CallerView(WithOtherSide(rows)) # <<ret, grouped>>

\* the observations the quotes fetched so far carry, in order
RECURSIVE ObservationsOf(_)
ObservationsOf(h) ==
    IF h = <<>> THEN <<>>
    ELSE ObservationsOf(SubSeq(h, 1, Len(h) - 1)) \o h[Len(h)].obs

\* a row of the builder as an observation
AsObservation(r) == [strike |-> r.strike, GEX |-> r.GEX, type |-> r.type]

(* C14: a failed get_quote does not end the loop: when the builder leaves  *)
(* the loop, get_quote was called for every symbol of the filtered chain,  *)
(* once and in order, and the rows are exactly the observations of the     *)
(* quotes that came back complete.                                         *)
C14_FailedFetchSkipsOne ==
    /\ pc = "done" =>
          [k \in 1..Len(fetched) |-> fetched[k].opt] = filtered_chain
    /\ [k \in 1..Len(rows) |-> AsObservation(rows[k])] = ObservationsOf(fetched)

IsPrefix(a, b) == Len(a) <= Len(b) /\ SubSeq(b, 1, Len(a)) = a

\* the calls a complete run makes: every ticker in list order, and in the
\* backfill that for each past day that is no Saturday or Sunday
RECURSIVE AttemptsUpTo(_)
AttemptsUpTo(d) ==
    IF d = 0 THEN <<>>
    ELSE AttemptsUpTo(d - 1)
         \o (IF Weekday(d) >= 5 THEN <<>>
             ELSE [k \in 1..Len(TICKERS) |-> <<TICKERS[k], d>>])

ExpectedAttempts ==
    IF builder = "build_gex" THEN [k \in 1..Len(TICKERS) |-> <<TICKERS[k], 0>>]
    ELSE AttemptsUpTo(DAYS_TO_BACKFILL)

(* C15: whatever happens while a ticker is built (no price, no chain, no    *)
(* data, an exception), the main loop eventually has called the builder for *)
(* every ticker exactly once in list order (the backfill: on every working  *)
(* day) and then ends; a step never changes what earlier tickers recorded   *)
(* (file list, flip zones, files on disk), and a failed call records        *)
(* nothing.                                                                 *)
C15_EveryTickerAttempted ==
    /\ <>(pc = "end" /\ attempted = ExpectedAttempts)
    /\ [][/\ pc # "end"
          /\ IsPrefix(attempted, attempted')
          /\ Len(attempted') <= Len(attempted) + 1
          /\ IsPrefix(generated_files, generated_files')
          /\ disk \subseteq disk'
          /\ \A e \in flip_summary :
                e \in flip_summary'
                \/ (attempted' # attempted /\ e[1] = attempted'[Len(attempted')][1])
          /\ (generated_files' = generated_files /\ disk' = disk)
                => flip_summary' = flip_summary]_vars

\* the second ticker failed, the first and the third were built
C15_Witness ==
    /\ pc = "end" /\ builder = "build_gex"
    /\ attempted = ExpectedAttempts
    /\ generated_files = <<<<TICKERS[1], "precision">>, <<TICKERS[3], "precision">>>>
    /\ flip_summary = {<<TICKERS[1], <<205, 2>>>>}

\* a sequence of numbers in ascending order
RECURSIVE Ascending(_)
Ascending(xs) ==
    IF xs = <<>> THEN <<>>
    ELSE LET n == Len(xs)
             rest == Ascending(SubSeq(xs, 1, n - 1))
         IN SelectSeq(rest, LAMBDA v : v <= xs[n]) \o <<xs[n]>>
            \o SelectSeq(rest, LAMBDA v : v > xs[n])

\* ten times the 90th percentile (linear interpolation between the closest
\* ranks) of |net_gex| over the rows of T
P90x10(T) ==
    LET v == Ascending([k \in 1..Len(T) |-> Abs(T[k].net_gex)])
        n == Len(v)
        lo == (9 * (n - 1)) \div 10 + 1
        hi == IF lo < n THEN lo + 1 ELSE n
    IN 10 * v[lo] + ((9 * (n - 1)) % 10) * (v[hi] - v[lo])

(* C16: the saved table flags as pressure zone exactly the strikes whose   *)
(* |net_gex| is at or above the 90th percentile (linear interpolation) of  *)
(* |net_gex| over all strikes of the snapshot.                             *)
C16_PressureZoneIsTopDecile ==
    (TableReady /\ builder = "build_gex") =>
        /\ Len(pressure_zone) = Len(grouped)
        /\ \A k \in 1..Len(grouped) :
              pressure_zone[k] = (10 * Abs(grouped[k].net_gex) >= P90x10(grouped))

(* C17: the GSI of every strike of the saved table is a quotient n / d     *)
(* with 0 <= n <= d and d > 0, i.e. a value in [0, 1], whatever the signs  *)
(* of call_gex and put_gex.                                                *)
C17_GsiInUnitInterval ==
    (TableReady /\ builder = "build_gex") =>
        \A k \in 1..Len(grouped) :
            LET g == grouped[k].GSI
            IN g[2] > 0 /\ 0 <= g[1] /\ g[1] <= g[2]

\* a strike with negative call and put exposure and a GSI strictly inside
C17_Witness ==
    /\ TableReady /\ builder = "build_gex"
    /\ \E k \in 1..Len(grouped) :
          /\ grouped[k].call_gex < 0 /\ grouped[k].put_gex < 0
          /\ 0 < grouped[k].GSI[1] /\ grouped[k].GSI[1] < grouped[k].GSI[2]

---------------------------------------------------------------------------
(* smart_filter_chain *)

\* how many times x occurs in xs
Occurrences(xs, x) == Cardinality({k \in 1..Len(xs) : xs[k] = x})

\* the symbols of xs whose expiry is e, in the order of xs
OfExpiry(xs, e) == SelectSeq(xs, LAMBDA x : parse_option_symbol(x) = e)

ExpiriesOf(xs) == {parse_option_symbol(xs[k]) : k \in 1..Len(xs)}

\* how many symbols of xs expire on e or before
CountUpTo(xs, e) == Cardinality({k \in 1..Len(xs) : parse_option_symbol(xs[k]) <= e})

EarliestExpiry(xs) ==
    CHOOSE e \in ExpiriesOf(xs) : \A f \in ExpiriesOf(xs) : e <= f

\* the earliest expiry alone holds more than MAX_OPTIONS symbols
FirstExpiryHuge(xs) ==
    xs # <<>> /\ Len(OfExpiry(xs, EarliestExpiry(xs))) > MAX_OPTIONS

\* C18: smart_filter_chain returns at most MAX_OPTIONS symbols, each one an
\* element of the input chain (no more often than the chain holds it); when
\* the earliest expiry alone holds more than MAX_OPTIONS symbols, exactly the
\* first MAX_OPTIONS symbols of that expiry are returned.
C18_AtMostMaxOptions ==
    pc = "filtered" =>
        /\ Len(filtered_chain) <= MAX_OPTIONS
        /\ \A k \in 1..Len(filtered_chain) :
              /\ filtered_chain[k] \in Range(chain)
              /\ Occurrences(filtered_chain, filtered_chain[k])
                   <= Occurrences(chain, filtered_chain[k])
        /\ FirstExpiryHuge(chain) =>
              filtered_chain =
                  SubSeq(OfExpiry(chain, EarliestExpiry(chain)), 1, MAX_OPTIONS)

\* the edge case has happened, with symbols of that expiry left out and a
\* later expiry in the chain
C18_Witness ==
    /\ pc = "filtered"
    /\ FirstExpiryHuge(chain)
    /\ Len(filtered_chain) = MAX_OPTIONS
    /\ Cardinality(ExpiriesOf(chain)) > 1
    /\ \E k \in 1..Len(chain) :
          /\ parse_option_symbol(chain[k]) = EarliestExpiry(chain)
          /\ chain[k] \notin Range(filtered_chain)

\* C19: the returned symbols are in ascending expiry order; if a symbol of
\* expiry e is returned, every input symbol of an earlier expiry is returned;
\* and unless the earliest expiry alone exceeds MAX_OPTIONS, every returned
\* expiry is returned completely, and the returned expiries are exactly those
\* up to which the chain holds at most MAX_OPTIONS symbols: selection stops at
\* the first expiry that would exceed the limit, whatever follows it.
C19_WholeExpiriesNearestFirst ==
    pc = "filtered" =>
        /\ \A k, l \in 1..Len(filtered_chain) :
              k < l => parse_option_symbol(filtered_chain[k])
                         <= parse_option_symbol(filtered_chain[l])
        /\ \A e \in ExpiriesOf(filtered_chain) :
              \A f \in ExpiriesOf(chain) :
                  f < e => OfExpiry(filtered_chain, f) = OfExpiry(chain, f)
        /\ ~FirstExpiryHuge(chain) =>
              /\ \A e \in ExpiriesOf(filtered_chain) :
                    OfExpiry(filtered_chain, e) = OfExpiry(chain, e)
              /\ \A e \in ExpiriesOf(chain) :
                    e \in ExpiriesOf(filtered_chain)
                        <=> CountUpTo(chain, e) <= MAX_OPTIONS

\* selection has stopped at an expiry over the limit although a later,
\* smaller expiry would still have fitted
C19_Witness ==
    /\ pc = "filtered"
    /\ ~FirstExpiryHuge(chain)
    /\ filtered_chain # <<>>
    /\ \E e, f \in ExpiriesOf(chain) :
          /\ e < f
          /\ e \notin ExpiriesOf(filtered_chain)
          /\ f \notin ExpiriesOf(filtered_chain)
          /\ Len(filtered_chain) + Len(OfExpiry(chain, f)) <= MAX_OPTIONS
          /\ \E g \in ExpiriesOf(filtered_chain) : g < e

---------------------------------------------------------------------------
(* Historical converter: the record of the last bar *)

\* the files of symbol s that the loop accepts
AcceptedFiles(s) ==
    {files[k].name : k \in {j \in 1..Len(files) :
        /\ files[j].name.symbol = s
        /\ WellNamed(files[j].name)
        /\ files[j].readable}}

\* C20: once the blocks are written, the record used for the last-bar
\* histogram of each symbol is the record of the accepted file of that symbol
\* with the greatest date tag.
C20_LastRecordIsMostRecent ==
    pc = "written" =>
        \A s \in Range(HistSymbols) :
            AcceptedFiles(s) # {} =>
                /\ last_record[s] # None
                /\ \A f \in AcceptedFiles(s) :
                      f.date[1] <= last_record[s][1].data.date[1]

---------------------------------------------------------------------------
(* Backfill: re-running *)

\* the day is one of today-1 .. today-DAYS_TO_BACKFILL and a working day
BackfillDay(d) == d \in 1..DAYS_TO_BACKFILL /\ Weekday(d) < 5

(* C21: in every step of the backfill, a price, chain or quote request is   *)
(* made only for a ticker and day whose file does not exist, on a working   *)
(* day among today-1 .. today-DAYS_TO_BACKFILL; build_day is called only    *)
(* for such days; every file on disk stays as it is; and a file is written  *)
(* only for such a day and only where none existed.                          *)
C21_RerunIsSafe ==
    [][/\ Len(fetched') > Len(fetched) =>
            \A k \in (Len(fetched) + 1)..Len(fetched') :
                /\ ~FileExists(fetched'[k][2], fetched'[k][3])
                /\ BackfillDay(fetched'[k][3])
       /\ Len(attempted') > Len(attempted) =>
            /\ BackfillDay(attempted'[Len(attempted')][2])
            /\ FileExists(attempted'[Len(attempted')][1], attempted'[Len(attempted')][2])
                  => (fetched' = <<>> /\ pc' = "call")
       /\ disk \subseteq disk'
       /\ \A f \in disk' \ disk :
            /\ BackfillDay(f.day)
            /\ ~FileExists(f.ticker, f.day)]_vars

\* the run has ended: build_day was called for a file of an earlier run,
\* which is still that file; another file was written; a day of the range
\* was a weekend; and a file with today's date is untouched
C21_Witness ==
    /\ pc = "end" /\ builder = "build_day" /\ attempted # <<>>
    /\ \E f \in disk :
          /\ f.run = "earlier"
          /\ \E k \in 1..Len(attempted) : attempted[k] = <<f.ticker, f.day>>
    /\ \E f \in disk : f.run = "this"
    /\ \E d \in 1..DAYS_TO_BACKFILL : Weekday(d) >= 5
    /\ \E f \in disk : f.day = 0 /\ f.run = "earlier"

---------------------------------------------------------------------------
(* infer_option_type *)

\* C22: for every option symbol ROOT + expiry + type letter + strike digits,
\* infer_option_type returns the symbol's own type letter, whatever letters
\* the root holds.
C22_InferredTypeIsOwnLetter ==
    \A k \in 1..Len(fetched) :
        fetched[k].type = fetched[k].opt.letter

---------------------------------------------------------------------------
(* Histogram bars of the Pine converters *)

\* the maximum length of the converter that has run
MaxBars == IF pc = "hist_bars" THEN HIST_MAX_BARS ELSE STANDALONE_MAX_BARS

\* net_gex of the strike in the file
NetGexAt(strike) ==
    LET k == CHOOSE j \in 1..Len(df) : df[j].strike = strike IN df[k].net_gex

\* the largest |net_gex| of the file
LargestAbs == Max({Abs(df[k].net_gex) : k \in 1..Len(df)})

(* C23: once a converter has emitted its arrays, every length is between 2  *)
(* and the converter's maximum; when the largest |net_gex| of the file is   *)
(* not zero, a strike that has it is emitted and every emitted strike that  *)
(* has it gets the maximum; a file of zeros gives arrays with length 2      *)
(* everywhere; and the sign is 1 exactly when net_gex >= 0, else -1.        *)
C23_BarLengthsAndSigns ==
    (pc \in {"hist_bars", "standalone_bars"} /\ df # <<>>) =>
        /\ ret # None
        /\ LET a == ret[1]
               n == Len(a.strikes)
           IN /\ n >= 1 /\ Len(a.lengths) = n /\ Len(a.signs) = n
              /\ \A k \in 1..n :
                    /\ a.lengths[k] \in 2..MaxBars
                    /\ a.signs[k] = (IF NetGexAt(a.strikes[k]) >= 0 THEN 1 ELSE -1)
                    /\ (LargestAbs # 0 /\ Abs(NetGexAt(a.strikes[k])) = LargestAbs)
                          => a.lengths[k] = MaxBars
                    /\ LargestAbs = 0 => a.lengths[k] = 2
              /\ LargestAbs # 0 =>
                    \E k \in 1..n : Abs(NetGexAt(a.strikes[k])) = LargestAbs

\* arrays with a bar of the maximum length, a bar raised to 2 and a
\* negative bar, from a file with more rows than are kept
C23_Witness ==
    /\ pc \in {"hist_bars", "standalone_bars"} /\ ret # None
    /\ Len(df) > Len(ret[1].strikes)
    /\ \E k, l \in 1..Len(ret[1].lengths) :
          /\ ret[1].lengths[k] = MaxBars
          /\ ret[1].lengths[l] = 2
          /\ Abs(NetGexAt(ret[1].strikes[l])) * MaxBars < 2 * LargestAbs
          /\ ret[1].signs[l] = -1

====
